---- MODULE Spec2Model ----
(***************************************************************************)
(* Model of the two batch drivers of the repository:                       *)
(*   src/convertMp4ToGif.js   (download MP4 -> transcode -> relink JSON)   *)
(*   src/uploadVideosToR2.js  (resolve -> upload to R2 -> relink JSON)     *)
(*                                                                         *)
(* A JavaScript string is a sequence of one-character strings.             *)
(* A JSON value is a record [t, v, kids]: t is the type tag, v the string  *)
(* value of a "str" node, kids the ordered <<key, value>> pairs of an      *)
(* "obj" node (in Object.values order) or of an "arr" node.                *)
(* An entry (a JS object reference) is the path of the node in the tree:   *)
(* the sequence of child positions leading to it.                          *)
(***************************************************************************)
EXTENDS Integers, Sequences, FiniteSets, Bags, TLC

VARIABLES
    prog,          \* which program/routine this behaviour runs
    pc,            \* position in the running code
    env,           \* process.env: variable name -> value, for the names set
    config,        \* loadConfig's result: accountId, bucket, prefix, publicBaseUrl
    delayMs,       \* DOWNLOAD_DELAY_MS
    disk,          \* filesystem: path -> "file" | "partial" | "dir"
    opening,       \* bag of the paths with a createWriteStream open in flight
    input,         \* the JSON document as read from the input file
    doc,           \* parsed JSON document (videoList), mutated in place
    entries,       \* result of collectVideoEntries: sequence of node paths
    idx,           \* position of the for..of loop over entries (1-based)
    cur,           \* locals of the running processEntry / download call
    attempt,       \* fetchWithRetry: local `attempt`
    maxAttempts,   \* fetchWithRetry: parameter maxAttempts
    backoffMs,     \* fetchWithRetry: parameter backoffMs
    uploadedKeys,  \* context.uploadedKeys
    uploadCount,   \* main: uploadCount
    reusedCount,   \* main: reusedCount
    failureCount,  \* main: failureCount
    output,        \* content of the output JSON file written by this run
    exitCode,      \* process.exitCode
    trace          \* history of the external effects, in order

vars == <<prog, pc, env, config, delayMs, disk, opening, input, doc, entries,
          idx, cur, attempt, maxAttempts,
          backoffMs, uploadedKeys, uploadCount, reusedCount, failureCount,
          output, exitCode, trace>>

fetchVars == <<attempt, maxAttempts, backoffMs>>
envVars == <<env, config, delayMs>>
docVars == <<input, doc, entries, idx>>
countVars == <<uploadedKeys, uploadCount, reusedCount, failureCount>>

----------------------------------------------------------------------------
(* Bounds of the model *)

MaxPathLen == 4
MaxPrefixLen == 3
MaxNodes == 4
MaxEntries == 3
MaxAttemptsBound == 4

----------------------------------------------------------------------------
(* Strings *)

S_http == <<"h", "t", "t", "p", ":", "/", "/">>
S_https == <<"h", "t", "t", "p", "s", ":", "/", "/">>

Take(s, n) == SubSeq(s, 1, IF n < Len(s) THEN n ELSE Len(s))
Drop(s, n) == SubSeq(s, n + 1, Len(s))
StartsWith(s, p) == Len(s) >= Len(p) /\ SubSeq(s, 1, Len(p)) = p
EndsWith(s, p) == Len(s) >= Len(p) /\ SubSeq(s, Len(s) - Len(p) + 1, Len(s)) = p

LowerChar(c) ==
    CASE c = "H" -> "h" [] c = "T" -> "t" [] c = "P" -> "p" [] c = "S" -> "s"
      [] c = "M" -> "m" [] c = "G" -> "g" [] c = "X" -> "x"
      [] OTHER -> c

ToLower(s) == [i \in 1..Len(s) |-> LowerChar(s[i])]

RECURSIVE StripLeading(_, _)
StripLeading(s, c) ==
    IF s # <<>> /\ Head(s) = c THEN StripLeading(Tail(s), c) ELSE s

RECURSIVE StripTrailing(_, _)
StripTrailing(s, c) ==
    IF s # <<>> /\ s[Len(s)] = c
    THEN StripTrailing(SubSeq(s, 1, Len(s) - 1), c) ELSE s

RECURSIVE CollapseSlashes(_)
CollapseSlashes(s) ==
    IF Len(s) < 2 THEN s
    ELSE IF s[1] = "/" /\ s[2] = "/" THEN CollapseSlashes(Tail(s))
    ELSE <<s[1]>> \o CollapseSlashes(Tail(s))

Trim(s) == StripTrailing(StripLeading(s, " "), " ")

\* The non-empty segments of s between separators sep.
RECURSIVE Segments(_, _, _)
Segments(s, sep, acc) ==
    IF s = <<>> THEN (IF acc = <<>> THEN <<>> ELSE <<acc>>)
    ELSE IF Head(s) = sep
         THEN (IF acc = <<>> THEN <<>> ELSE <<acc>>) \o Segments(Tail(s), sep, <<>>)
         ELSE Segments(Tail(s), sep, acc \o <<Head(s)>>)

\* split(sep): every piece, the empty ones included.
RECURSIVE Split(_, _, _)
Split(s, sep, acc) ==
    IF s = <<>> THEN <<acc>>
    ELSE IF Head(s) = sep THEN <<acc>> \o Split(Tail(s), sep, <<>>)
    ELSE Split(Tail(s), sep, acc \o <<Head(s)>>)

RECURSIVE Join(_, _)
Join(parts, sep) ==
    IF parts = <<>> THEN <<>>
    ELSE IF Len(parts) = 1 THEN parts[1]
    ELSE parts[1] \o sep \o Join(Tail(parts), sep)

----------------------------------------------------------------------------
(* URL and path library functions, on the inputs the model draws:          *)
(* no "?", "#", "\" and no "." or ".." path segment.                       *)

HexVal(c) ==
    CASE c = "0" -> 0 [] c = "2" -> 2 [] c = "5" -> 5 [] c = "F" -> 15
      [] c = "f" -> 15 [] OTHER -> -1

\* The character of a decoded byte below 0x80.
ByteChar(b) ==
    CASE b = 32 -> " " [] b = 34 -> "\"" [] b = 37 -> "%" [] b = 47 -> "/"
      [] OTHER -> "?"

\* decodeURIComponent: Decodable(s) is FALSE where it throws URIError.
RECURSIVE Decodable(_)
Decodable(s) ==
    IF s = <<>> THEN TRUE
    ELSE IF Head(s) # "%" THEN Decodable(Tail(s))
    ELSE /\ Len(s) >= 3
         /\ HexVal(s[2]) >= 0
         /\ HexVal(s[3]) >= 0
         /\ 16 * HexVal(s[2]) + HexVal(s[3]) < 128
         /\ Decodable(Drop(s, 3))

RECURSIVE decodeURIComponent(_)
decodeURIComponent(s) ==
    IF s = <<>> THEN <<>>
    ELSE IF Head(s) # "%" \/ Len(s) < 3
         THEN <<Head(s)>> \o decodeURIComponent(Tail(s))
         ELSE <<ByteChar(16 * HexVal(s[2]) + HexVal(s[3]))>>
              \o decodeURIComponent(Drop(s, 3))

isRemotePath(target) ==
    \/ StartsWith(ToLower(Take(target, Len(S_http))), S_http)
    \/ StartsWith(ToLower(Take(target, Len(S_https))), S_https)

\* What follows "scheme://" and any further slashes: host, then path.
AfterScheme(u) ==
    StripLeading(
        IF StartsWith(ToLower(Take(u, Len(S_https))), S_https)
        THEN Drop(u, Len(S_https)) ELSE Drop(u, Len(S_http)), "/")

RECURSIVE HostLen(_)
HostLen(s) == IF s = <<>> \/ Head(s) = "/" THEN 0 ELSE 1 + HostLen(Tail(s))

\* new URL(u) throws TypeError when the host is empty or holds a "%".
URLValid(u) ==
    /\ isRemotePath(u)
    /\ HostLen(AfterScheme(u)) > 0
    /\ \A i \in 1..HostLen(AfterScheme(u)) : AfterScheme(u)[i] \notin {"%", " "}

\* new URL(u).pathname
URLPathname(u) ==
    LET rest == Drop(AfterScheme(u), HostLen(AfterScheme(u)))
    IN  IF rest = <<>> THEN <<"/">> ELSE rest

PATH_SEP == "/"

\* __dirname of both scripts: the project root.
DIRNAME == <<"/", "r">>

isAbsolute(p) == p # <<>> /\ Head(p) = "/"

\* path.join(a, b) = normalize of the non-empty arguments joined by "/".
pathJoin(a, b) ==
    LET raw == CollapseSlashes(IF b = <<>> THEN a ELSE a \o <<"/">> \o b)
    IN  IF raw = <<>> THEN <<".">> ELSE raw

RECURSIVE CommonPrefixLen(_, _)
CommonPrefixLen(a, b) ==
    IF a = <<>> \/ b = <<>> \/ Head(a) # Head(b) THEN 0
    ELSE 1 + CommonPrefixLen(Tail(a), Tail(b))

\* path.relative(from, to) for absolute paths.
pathRelative(from, to) ==
    LET f == Segments(from, "/", <<>>)
        t == Segments(to, "/", <<>>)
        c == CommonPrefixLen(f, t)
        ups == [i \in 1..(Len(f) - c) |-> <<".", ".">>]
    IN  Join(ups \o SubSeq(t, c + 1, Len(t)), <<"/">>)

\* path.basename(p): the last segment, trailing slashes ignored.
pathBasename(p) ==
    LET segs == Segments(p, "/", <<>>)
    IN  IF segs = <<>> THEN <<>> ELSE segs[Len(segs)]

\* path.dirname(p)
pathDirname(p) ==
    LET segs == Segments(p, "/", <<>>)
    IN  IF Len(segs) <= 1 THEN (IF isAbsolute(p) THEN <<"/">> ELSE <<".">>)
        ELSE (IF isAbsolute(p) THEN <<"/">> ELSE <<>>)
             \o Join(SubSeq(segs, 1, Len(segs) - 1), <<"/">>)

\* uploadVideosToR2.js: DOWNLOAD_DIR = path.join(__dirname, 'downloads_r2')
DOWNLOAD_DIR ==
    pathJoin(DIRNAME, <<"d", "o", "w", "n", "l", "o", "a", "d", "s", "_", "r", "2">>)

\* convertMp4ToGif.js: DOWNLOAD_DIR = path.join(__dirname, 'downloads')
CONVERT_DOWNLOAD_DIR ==
    pathJoin(DIRNAME, <<"d", "o", "w", "n", "l", "o", "a", "d", "s">>)

\* convertMp4ToGif.js: GIF_DIR = path.join(__dirname, 'gifs')
GIF_DIR == pathJoin(DIRNAME, <<"g", "i", "f", "s">>)

----------------------------------------------------------------------------
(* uploadVideosToR2.js: key derivation *)

toPosixPath(filePath) == Join(Split(filePath, PATH_SEP, <<>>), <<"/">>)

sanitizeKeySegment(segment) ==
    StripTrailing(CollapseSlashes(StripLeading(segment, "/")), "/")

\* prefix.trim().replace(/^\/+|\/+$/g, '')
NormalizePrefix(prefix) ==
    StripTrailing(StripLeading(Trim(prefix), "/"), "/")

\* deriveObjectKey's keyBase before sanitizeKeySegment.
KeyBase(source, localPath) ==
    IF isRemotePath(source)
    THEN decodeURIComponent(URLPathname(source))
    ELSE toPosixPath(pathRelative(DIRNAME, localPath))

\* TRUE where deriveObjectKey returns; FALSE where new URL or
\* decodeURIComponent throws.
DeriveKeyOk(source) ==
    isRemotePath(source) => (URLValid(source) /\ Decodable(URLPathname(source)))

\* The key with the final concatenation left unsanitized, as in the source.
deriveObjectKey(source, localPath, prefix) ==
    LET normalizedPrefix == NormalizePrefix(prefix)
        keyBase == sanitizeKeySegment(KeyBase(source, localPath))
    IN  IF normalizedPrefix # <<>>
        THEN normalizedPrefix \o <<"/">> \o keyBase
        ELSE keyBase

\* downloadRemoteFile: the destination computed from the URL.
DownloadDestination(url) ==
    pathJoin(DOWNLOAD_DIR,
             StripLeading(decodeURIComponent(URLPathname(url)), "/"))

\* resolveLocalPath(target) for a local target (the fs.access check aside).
LocalAbsolute(target) ==
    IF isAbsolute(target) THEN target ELSE pathJoin(DIRNAME, target)

\* The localPath processEntry passes to deriveObjectKey for `source`.
ResolvedPath(source) ==
    IF isRemotePath(source) THEN DownloadDestination(source)
    ELSE LocalAbsolute(source)

----------------------------------------------------------------------------
(* JSON values *)

JNull == [t |-> "null", v |-> <<>>, kids |-> <<>>]
JNum(digits) == [t |-> "num", v |-> digits, kids |-> <<>>]
JStr(s) == [t |-> "str", v |-> s, kids |-> <<>>]
JArr(items) == [t |-> "arr", v |-> <<>>,
                kids |-> [i \in 1..Len(items) |-> <<"", items[i]>>]]
JObj(props) == [t |-> "obj", v |-> <<>>, kids |-> props]

K_video == "video"

\* JavaScript truthiness of a JSON value (the test `!node`, `!entry.video`).
Truthy(node) ==
    CASE node.t = "null" -> FALSE
      [] node.t = "num" -> node.v # <<"0">>
      [] node.t = "str" -> node.v # <<>>
      [] OTHER -> TRUE

\* node[key] of an object: the property's value, or Undefined.
Undefined == [t |-> "undefined", v |-> <<>>, kids |-> <<>>]

RECURSIVE PropFrom(_, _, _)
PropFrom(kids, key, i) ==
    IF i > Len(kids) THEN Undefined
    ELSE IF kids[i][1] = key THEN kids[i][2]
    ELSE PropFrom(kids, key, i + 1)

GetProp(node, key) ==
    IF node.t = "obj" THEN PropFrom(node.kids, key, 1) ELSE Undefined

RECURSIVE NodeAt(_, _)
NodeAt(node, path) ==
    IF path = <<>> THEN node
    ELSE NodeAt(node.kids[Head(path)][2], Tail(path))

\* entry.video = value, on the entry at `path`: the property keeps its place.
RECURSIVE SetVideo(_, _, _)
\* An assignment that replaces the whole entry by an object holding only `video`.
ReplaceEntry(node, path, value) ==
    IF path = <<>>
    THEN JObj(<< <<K_video, JStr(value)>> >>)
    ELSE [node EXCEPT !.kids[Head(path)] =
            <<node.kids[Head(path)][1],
              SetVideo(node.kids[Head(path)][2], Tail(path), value)>>]

SetVideo(node, path, value) ==
    IF path = <<>>
    THEN [node EXCEPT !.kids =
            [i \in 1..Len(node.kids) |->
                IF node.kids[i][1] = K_video
                THEN <<K_video, JStr(value)>> ELSE node.kids[i]]]
    ELSE [node EXCEPT !.kids[Head(path)] =
            <<node.kids[Head(path)][1],
              SetVideo(node.kids[Head(path)][2], Tail(path), value)>>]

\* collectVideoEntries(node, entries): the entries appended for `node`, which
\* sits at `path`; each entry is identified by its path.
RECURSIVE collectVideoEntries(_, _)
RECURSIVE CollectEach(_, _, _)
CollectEach(node, path, i) ==
    IF i > Len(node.kids) THEN <<>>
    ELSE collectVideoEntries(node.kids[i][2], path \o <<i>>)
         \o CollectEach(node, path, i + 1)

\* A collector that takes any truthy `video` for an entry.
collectAnyVideo(node, path) ==
    IF ~Truthy(node) THEN <<>>
    ELSE IF node.t = "arr" THEN CollectEach(node, path, 1)
    ELSE IF node.t = "obj"
         THEN (IF Truthy(GetProp(node, K_video)) /\ GetProp(node, K_video) # Undefined
               THEN <<path>> ELSE <<>>)
              \o CollectEach(node, path, 1)
         ELSE <<>>

collectVideoEntries(node, path) ==
    IF ~Truthy(node) THEN <<>>
    ELSE IF node.t = "arr" THEN CollectEach(node, path, 1)
    ELSE IF node.t = "obj"
         THEN (IF GetProp(node, K_video).t = "str" THEN <<path>> ELSE <<>>)
              \o CollectEach(node, path, 1)
         ELSE <<>>

\* The string value of entry.video.
VideoOf(d, path) == GetProp(NodeAt(d, path), K_video).v

----------------------------------------------------------------------------
(* Input domains *)

Strs(alphabet, n) == UNION {[1..k -> alphabet] : k \in 0..n}

RemoteOrigin == S_http \o <<"h">>

\* Remote references: an origin followed by nothing or by an absolute path.
RemoteSources ==
    {RemoteOrigin \o p :
        p \in {q \in Strs({"/", "x", "%", "2", "F"}, MaxPathLen) :
                  q = <<>> \/ Head(q) = "/"}}

LocalSources == Strs({"/", "x"}, MaxPathLen) \ {<<>>}

Prefixes == Strs({"/", "p", " "}, MaxPrefixLen)

\* Two more references, a local and a remote one: what resolveLocalPath
\* returns for them are localPath values deriveObjectKey receives.
OtherSources == {<<"x">>, RemoteOrigin \o <<"/", "x">>}

OtherKeys == <<"k1", "k2", "k3", "k4", "k5", "k6", "k7", "k8">>

\* The objects over the values f: `video` at position vpos, or nowhere.
ObjsOf(f) ==
    {JObj([i \in 1..Len(f) |->
              <<IF i = vpos THEN K_video ELSE OtherKeys[i], f[i]>>]) :
        vpos \in 0..Len(f)}

\* JSON values of exactly n nodes, and sequences of values of n nodes in all.
RECURSIVE TreesOf(_)
RECURSIVE ForestsOf(_)
TreesOf(n) ==
    IF n = 1
    THEN {JNull, JNum(<<"0">>), JStr(<<>>), JStr(<<"u">>), JArr(<<>>), JObj(<<>>)}
    ELSE {JArr(f) : f \in ForestsOf(n - 1)}
         \cup UNION {ObjsOf(f) : f \in ForestsOf(n - 1)}

ForestsOf(n) ==
    IF n = 0 THEN {<<>>}
    ELSE UNION {{<<t>> \o f : t \in TreesOf(k), f \in ForestsOf(n - k)} :
                   k \in 1..n}

Trees(max) == UNION {TreesOf(n) : n \in 1..max}

----------------------------------------------------------------------------
(* Values of the variables a behaviour does not use *)

NoError == [msg |-> "", namesUrl |-> FALSE, namesAttempts |-> FALSE]

\* The locals of processEntry and of the download call it makes.
NoLocals == [source |-> <<>>, url |-> <<>>, dest |-> <<>>, localPath |-> <<>>,
             gif |-> <<>>, error |-> NoError, routine |-> "", call |-> 0]

IdleFetch == attempt = 0 /\ maxAttempts = 0 /\ backoffMs = 0

NoConfig == [accountId |-> <<>>, bucket |-> <<>>, prefix |-> <<>>,
             publicBaseUrl |-> <<>>]

IdleDriver ==
    /\ env = <<>>
    /\ config = NoConfig
    /\ delayMs = 0
    /\ disk = {}
    /\ opening = EmptyBag
    /\ uploadedKeys = {}
    /\ uploadCount = 0
    /\ reusedCount = 0
    /\ failureCount = 0
    /\ output = "none"
    /\ exitCode = 0

IdleDoc == input = JNull /\ doc = JNull /\ entries = <<>> /\ idx = 0

----------------------------------------------------------------------------
(* collectVideoEntries applied to one JSON value *)

InitCollect ==
    /\ prog = "collect"
    /\ pc = "collect_call"
    /\ doc \in Trees(MaxNodes)
    /\ input = doc
    /\ entries = <<>>
    /\ idx = 0
    /\ cur = NoLocals
    /\ trace = <<>>
    /\ IdleFetch
    /\ IdleDriver

CollectCall ==
    /\ prog = "collect"
    /\ pc = "collect_call"
    /\ entries' = collectVideoEntries(doc, <<>>)
    /\ pc' = "collect_done"
    /\ UNCHANGED <<prog, envVars, disk, opening, input, doc, idx, cur, fetchVars,
                   countVars, output, exitCode, trace>>

NextCollect == CollectCall

SpecCollect == InitCollect /\ [][NextCollect]_vars

----------------------------------------------------------------------------
(* deriveObjectKey called twice with the same source and prefix *)


InitKey ==
    /\ prog = "key"
    /\ pc = "key_call"
    /\ \E source \in RemoteSources \cup LocalSources, prefix \in Prefixes :
         \E other \in {ResolvedPath(s) : s \in {source} \cup OtherSources} :
            cur = [source |-> source,
                   prefix |-> prefix,
                   localPath |-> ResolvedPath(source),
                   otherLocalPath |-> other,
                   key |-> <<>>,
                   otherKey |-> <<>>]
    /\ trace = <<>>
    /\ IdleDoc
    /\ IdleFetch
    /\ IdleDriver

DeriveKeyReturn ==
    /\ prog = "key"
    /\ pc = "key_call"
    /\ DeriveKeyOk(cur.source)
    /\ cur' = [cur EXCEPT
                 !.key = deriveObjectKey(cur.source, cur.localPath, cur.prefix),
                 !.otherKey = deriveObjectKey(cur.source, cur.otherLocalPath,
                                              cur.prefix)]
    /\ pc' = "key_done"
    /\ UNCHANGED <<prog, envVars, disk, opening, docVars, fetchVars, countVars, output,
                   exitCode, trace>>

DeriveKeyThrow ==
    /\ prog = "key"
    /\ pc = "key_call"
    /\ ~DeriveKeyOk(cur.source)
    /\ pc' = "key_thrown"
    /\ UNCHANGED <<prog, envVars, disk, opening, docVars, cur, fetchVars, countVars,
                   output, exitCode, trace>>

NextKey == DeriveKeyReturn \/ DeriveKeyThrow

SpecKey == InitKey /\ [][NextKey]_vars

----------------------------------------------------------------------------
(* Claims about collectVideoEntries *)

RECURSIVE AllPaths(_, _)
AllPaths(node, path) ==
    {path} \cup UNION {AllPaths(node.kids[i][2], path \o <<i>>) :
                          i \in 1..Len(node.kids)}

\* An object node that owns a string-typed `video` property.
HasStringVideo(node) ==
    /\ node.t = "obj"
    /\ \E i \in 1..Len(node.kids) :
         node.kids[i][1] = K_video /\ node.kids[i][2].t = "str"

IsPrefix(p, q) == Len(p) <= Len(q) /\ SubSeq(q, 1, Len(p)) = p

\* p comes before q in a depth-first pre-order walk.
PreorderBefore(p, q) ==
    /\ p # q
    /\ \/ IsPrefix(p, q)
       \/ \E i \in 1..Len(p) :
            /\ i <= Len(q)
            /\ SubSeq(p, 1, i - 1) = SubSeq(q, 1, i - 1)
            /\ p[i] < q[i]

\* C8: collect returns exactly the object nodes with a string `video`, each
\* once, in depth-first pre-order; null and scalars yield no entries.
C8_CollectExact ==
    pc = "collect_done" =>
        /\ \A i \in 1..Len(entries) :
             /\ entries[i] \in AllPaths(doc, <<>>)
             /\ HasStringVideo(NodeAt(doc, entries[i]))
        /\ \A p \in AllPaths(doc, <<>>) :
             HasStringVideo(NodeAt(doc, p)) =>
                Cardinality({i \in 1..Len(entries) : entries[i] = p}) = 1
        /\ \A i, j \in 1..Len(entries) :
             i < j => PreorderBefore(entries[i], entries[j])
        /\ doc.t \notin {"arr", "obj"} => entries = <<>>

\* An entry followed by an entry nested in one of its own property values.
C8_Witness ==
    /\ pc = "collect_done"
    /\ Len(entries) >= 2
    /\ IsPrefix(entries[1], entries[2])
    /\ entries[1] # entries[2]

----------------------------------------------------------------------------
(* Claims about deriveObjectKey *)

RECURSIVE HasDoubleSlash(_)
HasDoubleSlash(s) ==
    /\ Len(s) >= 2
    /\ \/ (s[1] = "/" /\ s[2] = "/")
       \/ HasDoubleSlash(Tail(s))

WellShapedKey(k) ==
    /\ ~StartsWith(k, <<"/">>)
    /\ ~EndsWith(k, <<"/">>)
    /\ ~HasDoubleSlash(k)

\* C9: the key returned by deriveObjectKey never starts with "/", never ends
\* with "/" and never contains "//".
C9_KeyShape == pc = "key_done" => WellShapedKey(cur.key)

----------------------------------------------------------------------------
(* uploadVideosToR2.js: fetchWithRetry(url, options, maxAttempts, backoffMs) *)

DEFAULT_MAX_ATTEMPTS == 3
DEFAULT_BACKOFF_MS == 2000

\* How one fetch attempt can fail: fetch() rejects, the response is not ok,
\* or the response has no body.
FailureKinds == {"network", "status", "nobody"}

\* The errors the call can end with, by message.
\*   E_exhausted: `Failed to download ${url} after ${maxAttempts} attempts.`
E_exhausted == [msg |-> "Failed to download <url> after <maxAttempts> attempts.",
                namesUrl |-> TRUE, namesAttempts |-> TRUE]

\* The error one failed attempt raises: the error fetch() itself threw (it
\* names neither URL nor count), or
\* `Failed to download ${url}: ${status} ${statusText}`.
ErrorOf(kind) ==
    IF kind = "network"
    THEN [msg |-> "fetch failed", namesUrl |-> FALSE, namesAttempts |-> FALSE]
    ELSE [msg |-> "Failed to download <url>: <status> <statusText>",
          namesUrl |-> TRUE, namesAttempts |-> FALSE]

Event(op, what, s, n) == [op |-> op, what |-> what, s |-> s, n |-> n]

\* A loop that gives up one failure early.
GivesUpEarly(att, max) == att >= max - 1

\* `if (attempt >= maxAttempts) throw error`
GivesUp(att, max) == att >= max

\* A linear backoff.
waitTimeLinear(backoff, att) == backoff * att

\* `backoffMs * 2 ** (attempt - 1)`
waitTime(backoff, att) == backoff * 2 ^ (att - 1)

\* `while (attempt < maxAttempts)`, and the response is ok and has a body.
FetchSucceed ==
    /\ pc = "fr_loop"
    /\ attempt < maxAttempts
    /\ trace' = Append(trace, Event("fetch", "ok", cur.url, attempt + 1))
    /\ pc' = "fr_ret"
    /\ UNCHANGED <<prog, envVars, disk, opening, docVars, cur, fetchVars, countVars,
                   output, exitCode>>

\* The attempt throws; the catch block counts it, then rethrows or waits.
FetchFail ==
    /\ pc = "fr_loop"
    /\ attempt < maxAttempts
    /\ \E kind \in FailureKinds :
         LET failed == Event("fetch", "fail", cur.url, attempt + 1)
         IN  /\ attempt' = attempt + 1
             /\ IF GivesUp(attempt + 1, maxAttempts)
                THEN /\ cur' = [cur EXCEPT !.error = ErrorOf(kind)]
                     /\ trace' = Append(trace, failed)
                     /\ pc' = "fr_throw"
                ELSE /\ trace' = trace \o
                          <<failed,
                            Event("delay", "backoff", cur.url,
                                  waitTime(backoffMs, attempt + 1))>>
                     /\ pc' = "fr_loop"
                     /\ UNCHANGED cur
    /\ UNCHANGED <<prog, envVars, disk, opening, docVars, maxAttempts, backoffMs,
                   countVars, output, exitCode>>

\* The loop ends without a return: the throw after the loop.
FetchLoopExit ==
    /\ pc = "fr_loop"
    /\ ~(attempt < maxAttempts)
    /\ cur' = [cur EXCEPT !.error = E_exhausted]
    /\ pc' = "fr_throw"
    /\ UNCHANGED <<prog, envVars, disk, opening, docVars, fetchVars, countVars, output,
                   exitCode, trace>>

InitFetch ==
    /\ prog = "fetch"
    /\ pc = "fr_loop"
    /\ attempt = 0
    /\ maxAttempts \in 0..MaxAttemptsBound
    /\ backoffMs \in {0, 1, 500, DEFAULT_BACKOFF_MS}
    /\ cur = [NoLocals EXCEPT !.url = RemoteOrigin \o <<"/", "x">>]
    /\ trace = <<>>
    /\ IdleDoc
    /\ IdleDriver

NextFetch == FetchSucceed \/ FetchFail \/ FetchLoopExit

SpecFetch == InitFetch /\ [][NextFetch]_vars

----------------------------------------------------------------------------
(* Claims about fetchWithRetry *)

FetchEvents == SelectSeq(trace, LAMBDA e : e.op = "fetch")
DelayEvents == SelectSeq(trace, LAMBDA e : e.op = "delay" /\ e.what = "backoff")

\* C2: at most maxAttempts attempts; an attempt follows only failed attempts;
\* the call returns at the first successful attempt and gives up only after
\* maxAttempts failures (2 failures, then a success, with maxAttempts = 3:
\* returned after exactly 3 attempts).
C2_AttemptBound ==
    LET f == FetchEvents
    IN  /\ Len(f) <= maxAttempts
        /\ \A i \in 1..Len(f) :
             /\ f[i].n = i
             /\ i < Len(f) => f[i].what = "fail"
        /\ (Len(f) > 0 /\ f[Len(f)].what = "ok") <=> pc = "fr_ret"
        /\ pc = "fr_throw" => Len(f) = maxAttempts
        /\ pc = "fr_loop" => Len(f) < maxAttempts \/ maxAttempts = 0

\* Two failures, then a success on the third and last allowed attempt.
C2_Witness ==
    /\ pc = "fr_ret"
    /\ maxAttempts = 3
    /\ Len(FetchEvents) = 3
    /\ FetchEvents[1].what = "fail"
    /\ FetchEvents[2].what = "fail"
    /\ FetchEvents[3].what = "ok"

\* C3: the k-th failed attempt, k < maxAttempts, is followed by a wait of
\* exactly backoffMs * 2^(k-1) before attempt k+1; there is no wait before
\* the first attempt and none after the final failed attempt.
C3_BackoffSchedule ==
    /\ \A i \in 1..Len(trace) :
         /\ (trace[i].op = "delay") =>
              /\ i > 1
              /\ trace[i - 1].op = "fetch"
              /\ trace[i - 1].what = "fail"
              /\ trace[i - 1].n < maxAttempts
              /\ trace[i].n = backoffMs * 2 ^ (trace[i - 1].n - 1)
         /\ (trace[i].op = "fetch" /\ trace[i].what = "fail") =>
              IF trace[i].n < maxAttempts
              THEN i < Len(trace) /\ trace[i + 1].op = "delay"
              ELSE i = Len(trace)
    /\ \A k \in 1..Len(DelayEvents) :
         /\ DelayEvents[k].n = backoffMs * 2 ^ (k - 1)
         /\ k > 1 => DelayEvents[k].n = 2 * DelayEvents[k - 1].n

\* Three waits in one call, with a non-zero backoff.
C3_Witness ==
    /\ Len(DelayEvents) >= 3
    /\ backoffMs = DEFAULT_BACKOFF_MS
    /\ DelayEvents[3].n = 4 * DEFAULT_BACKOFF_MS
    /\ pc = "fr_throw"

\* C4: when all maxAttempts attempts fail, the call fails with the error that
\* names the URL and the attempt count, whatever the last failure was.
C4_ExhaustionError ==
    (pc = "fr_throw" /\ Len(FetchEvents) = maxAttempts) =>
        (cur.error = E_exhausted /\ cur.error.namesUrl /\ cur.error.namesAttempts)

----------------------------------------------------------------------------
(* Filesystem *)

Exists(d, path) == \E e \in d : e[1] = path
KindOf(d, path) == (CHOOSE e \in d : e[1] = path)[2]
Put(d, path, kind) == {e \in d : e[1] # path} \cup {<<path, kind>>}

\* fs.mkdir(path, { recursive: true }): nothing changes if it exists.
Mkdir(d, path) == IF Exists(d, path) THEN d ELSE Put(d, path, "dir")

----------------------------------------------------------------------------
(* uploadVideosToR2.js: downloadRemoteFile(url) *)

DEFAULT_DOWNLOAD_DELAY_MS == 2000

\* What downloadRemoteFile throws before it has a destination: the TypeError
\* of new URL(url), or the URIError of decodeURIComponent(pathname).
E_url(url) ==
    [msg |-> IF URLValid(url) THEN "URI malformed" ELSE "Invalid URL",
     namesUrl |-> FALSE, namesAttempts |-> FALSE]
E_stream == [msg |-> "stream error", namesUrl |-> FALSE, namesAttempts |-> FALSE]
E_access == [msg |-> "ENOENT", namesUrl |-> FALSE, namesAttempts |-> FALSE]
E_put == [msg |-> "PutObject failed", namesUrl |-> FALSE, namesAttempts |-> FALSE]
E_config == [msg |-> "Missing required environment variable",
             namesUrl |-> FALSE, namesAttempts |-> FALSE]

DownloadUrlOk(url) == URLValid(url) /\ Decodable(URLPathname(url))

\* An existence test that never finds the file.
NeverCached(d, path) == FALSE

\* `if (existsSync(destination)) return destination`
CacheHit(d, path) == Exists(d, path)

\* A downloader that never waits before fetching.
ThrottleSkipped(url, ms) == <<>>

\* `if (DOWNLOAD_DELAY_MS > 0) await delay(DOWNLOAD_DELAY_MS)`
Throttle(url, ms) ==
    IF ms > 0 THEN <<Event("delay", "throttle", url, ms)>> ELSE <<>>

\* new URL(url) or decodeURIComponent throws.
DownloadRemoteBadUrl ==
    /\ pc = "dl_begin"
    /\ cur.routine = "downloadRemoteFile"
    /\ ~DownloadUrlOk(cur.url)
    /\ cur' = [cur EXCEPT !.error = E_url(cur.url)]
    /\ pc' = "dl_throw"
    /\ UNCHANGED <<prog, envVars, disk, opening, docVars, fetchVars, countVars, output,
                   exitCode, trace>>

DownloadRemoteCacheHit ==
    /\ pc = "dl_begin"
    /\ cur.routine = "downloadRemoteFile"
    /\ DownloadUrlOk(cur.url)
    /\ CacheHit(disk, DownloadDestination(cur.url))
    /\ cur' = [cur EXCEPT !.dest = DownloadDestination(cur.url)]
    /\ trace' = Append(trace, Event("cachehit", KindOf(disk, DownloadDestination(cur.url)),
                                    DownloadDestination(cur.url), cur.call))
    /\ pc' = "dl_ret"
    /\ UNCHANGED <<prog, envVars, disk, opening, docVars, fetchVars, countVars, output,
                   exitCode>>

\* Cache miss: create the parent directory, throttle, call fetchWithRetry(url).
DownloadRemoteMiss ==
    /\ pc = "dl_begin"
    /\ cur.routine = "downloadRemoteFile"
    /\ DownloadUrlOk(cur.url)
    /\ ~CacheHit(disk, DownloadDestination(cur.url))
    /\ cur' = [cur EXCEPT !.dest = DownloadDestination(cur.url)]
    /\ disk' = Mkdir(disk, pathDirname(DownloadDestination(cur.url)))
    /\ UNCHANGED opening
    /\ trace' = trace \o Throttle(cur.url, delayMs)
    /\ attempt' = 0
    /\ maxAttempts' = DEFAULT_MAX_ATTEMPTS
    /\ backoffMs' = DEFAULT_BACKOFF_MS
    /\ pc' = "fr_loop"
    /\ UNCHANGED <<prog, envVars, docVars, countVars, output, exitCode>>

\* fetchWithRetry rejected: downloadRemoteFile rejects with the same error.
DownloadRemoteFetchThrew ==
    /\ pc = "fr_throw"
    /\ cur.routine = "downloadRemoteFile"
    /\ pc' = "dl_throw"
    /\ UNCHANGED <<prog, envVars, disk, opening, docVars, cur, fetchVars, countVars,
                   output, exitCode, trace>>

\* pipeline(response.body, createWriteStream(destination)) completes.
DownloadRemoteStreamOk ==
    /\ pc = "fr_ret"
    /\ cur.routine = "downloadRemoteFile"
    /\ disk' = Put(disk, cur.dest, "file")
    /\ UNCHANGED opening
    /\ trace' = Append(trace, Event("stream", "ok", cur.dest, cur.call))
    /\ pc' = "dl_ret"
    /\ UNCHANGED <<prog, envVars, docVars, cur, fetchVars, countVars, output,
                   exitCode>>

\* pipeline rejects: the body stream failed. createWriteStream has issued the
\* open of the destination; when the pipeline rejects the open has either
\* completed (a truncated file is there) or is still in flight.
DownloadRemoteStreamFail ==
    /\ pc = "fr_ret"
    /\ cur.routine = "downloadRemoteFile"
    /\ \E opened \in BOOLEAN :
         IF opened
         THEN /\ disk' = Put(disk, cur.dest, "partial")
              /\ opening' = opening
         ELSE /\ disk' = disk
              /\ opening' = opening (+) SetToBag({cur.dest})
    /\ cur' = [cur EXCEPT !.error = E_stream]
    /\ trace' = Append(trace, Event("stream", "fail", cur.dest, cur.call))
    /\ pc' = "dl_throw"
    /\ UNCHANGED <<prog, envVars, docVars, fetchVars, countVars, output,
                   exitCode>>

\* The open issued by createWriteStream completes after its pipeline has
\* rejected: it creates the file, or truncates the one a later call has
\* written in the meantime, while the program goes on or while the process
\* waits for the request before it exits.
OpenCompletes ==
    /\ \E path \in BagToSet(opening) :
         /\ disk' = Put(disk, path, "partial")
         /\ opening' = opening (-) SetToBag({path})
    /\ UNCHANGED <<prog, pc, envVars, docVars, cur, fetchVars, countVars, output,
                   exitCode, trace>>

DownloadRemoteFile ==
    \/ DownloadRemoteBadUrl
    \/ DownloadRemoteCacheHit
    \/ DownloadRemoteMiss
    \/ DownloadRemoteFetchThrew
    \/ DownloadRemoteStreamOk
    \/ DownloadRemoteStreamFail

----------------------------------------------------------------------------
(* uploadVideosToR2.js: loadConfig, buildPublicUrl, processEntry, main *)

RequiredEnv == {"R2_ACCOUNT_ID", "R2_ACCESS_KEY_ID", "R2_SECRET_ACCESS_KEY",
                "R2_BUCKET_NAME"}

S_r2host == <<".", "r", "2", ".", "c", "l", "o", "u", "d", "f", "l", "a", "r", "e",
              "s", "t", "o", "r", "a", "g", "e", ".", "c", "o", "m", "/">>

buildPublicUrl(cfg, objectKey) ==
    IF cfg.publicBaseUrl # <<>>
    THEN StripTrailing(cfg.publicBaseUrl, "/") \o <<"/">> \o objectKey
    ELSE S_https \o cfg.bucket \o <<".">> \o cfg.accountId \o S_r2host \o objectKey

\* A loop that hands the first entry to every iteration.
EntryFirst == entries[1]

\* `for (const entry of entries)`: the entry of the current iteration.
Entry == entries[idx]

\* processEntry's `source`.
SourceOf(d, path) == Trim(VideoOf(d, path))

\* A catch block that leaves the loop instead of continuing it.
CatchAndBreak(why) ==
    /\ failureCount' = failureCount + 1
    /\ idx' = Len(entries) + 1
    /\ pc' = "loop"
    /\ UNCHANGED <<input, doc, entries, uploadedKeys, uploadCount, reusedCount>>

\* The catch block of main's loop: count the failure, go on with the next.
CatchEntryFailure(why) ==
    /\ failureCount' = failureCount + 1
    /\ idx' = idx + 1
    /\ pc' = "loop"
    /\ UNCHANGED <<input, doc, entries, uploadedKeys, uploadCount, reusedCount>>

\* A loop that counts every result as a new upload.
TakeResultAsUpload(objectKey, reused) ==
    /\ doc' = SetVideo(doc, Entry, buildPublicUrl(config, objectKey))
    /\ uploadCount' = uploadCount + 1
    /\ idx' = idx + 1
    /\ pc' = "loop"
    /\ UNCHANGED <<input, entries, failureCount, reusedCount>>

\* main after a non-null result: rewrite the entry, count it, go on.
TakeResult(objectKey, reused) ==
    /\ doc' = SetVideo(doc, Entry, buildPublicUrl(config, objectKey))
    /\ reusedCount' = IF reused THEN reusedCount + 1 ELSE reusedCount
    /\ uploadCount' = IF reused THEN uploadCount ELSE uploadCount + 1
    /\ idx' = idx + 1
    /\ pc' = "loop"
    /\ UNCHANGED <<input, entries, failureCount>>

\* getRequiredEnv(name) returns: `process.env[name]` is set and not empty.
HasEnv(e, name) == name \in DOMAIN e /\ e[name] # <<>>

\* A loadConfig that asks for no variable.
ConfigUnchecked(e) == TRUE

\* loadConfig returns: none of its getRequiredEnv calls throws.
ConfigComplete(e) == \A name \in RequiredEnv : HasEnv(e, name)

\* `process.env[name] ?? ''`, and the value getRequiredEnv(name) returns
\* (where HasEnv is false getRequiredEnv throws and no value is used).
EnvOrEmpty(e, name) == IF name \in DOMAIN e THEN e[name] ELSE <<>>

\* The fields of loadConfig's result that the run reads.
loadConfig(e) ==
    [accountId |-> EnvOrEmpty(e, "R2_ACCOUNT_ID"),
     bucket |-> EnvOrEmpty(e, "R2_BUCKET_NAME"),
     prefix |-> EnvOrEmpty(e, "R2_PREFIX"),
     publicBaseUrl |-> EnvOrEmpty(e, "R2_PUBLIC_BASE_URL")]

\* getRequiredEnv throws: main rejects before anything else runs.
LoadConfigMissing ==
    /\ prog = "upload"
    /\ pc = "main_start"
    /\ ~ConfigComplete(env)
    /\ cur' = [cur EXCEPT !.error = E_config]
    /\ exitCode' = 1
    /\ pc' = "exit"
    /\ UNCHANGED <<prog, envVars, disk, opening, docVars, fetchVars, countVars, output,
                   trace>>

\* loadConfig, createS3Client and ensureDirectories succeed.
UploadStart ==
    /\ prog = "upload"
    /\ pc = "main_start"
    /\ ConfigComplete(env)
    /\ config' = loadConfig(env)
    /\ disk' = Mkdir(disk, DOWNLOAD_DIR)
    /\ UNCHANGED opening
    /\ trace' = Append(trace, Event("fs", "mkdir", DOWNLOAD_DIR, 0))
    /\ pc' = "main_read"
    /\ UNCHANGED <<prog, env, delayMs, docVars, cur, fetchVars, countVars,
                   output, exitCode>>

\* readVideoList, collectVideoEntries, the context and the counters.
UploadCollect ==
    /\ prog = "upload"
    /\ pc = "main_read"
    /\ entries' = collectVideoEntries(doc, <<>>)
    /\ idx' = 1
    /\ uploadedKeys' = {}
    /\ uploadCount' = 0
    /\ reusedCount' = 0
    /\ failureCount' = 0
    /\ trace' = Append(trace, Event("fs", "read", <<>>, 0))
    /\ pc' = "loop"
    /\ UNCHANGED <<prog, envVars, disk, opening, input, doc, cur, fetchVars, output,
                   exitCode>>

\* processEntry returns null: falsy video, or empty after trim.
ProcessEntrySkip ==
    /\ prog = "upload"
    /\ pc = "loop"
    /\ idx <= Len(entries)
    /\ SourceOf(doc, Entry) = <<>>
    /\ idx' = idx + 1
    /\ trace' = Append(trace, Event("entry", "skipped", VideoOf(doc, Entry), idx))
    /\ UNCHANGED <<prog, pc, envVars, disk, opening, input, doc, entries, cur,
                   fetchVars, countVars, output, exitCode>>

\* resolveLocalPath on a remote source: call downloadRemoteFile.
ProcessEntryRemote ==
    /\ prog = "upload"
    /\ pc = "loop"
    /\ idx <= Len(entries)
    /\ SourceOf(doc, Entry) # <<>>
    /\ isRemotePath(SourceOf(doc, Entry))
    /\ cur' = [NoLocals EXCEPT !.source = SourceOf(doc, Entry),
                               !.url = SourceOf(doc, Entry),
                               !.routine = "downloadRemoteFile",
                               !.call = idx]
    /\ pc' = "dl_begin"
    /\ UNCHANGED <<prog, envVars, disk, opening, docVars, fetchVars, countVars, output,
                   exitCode, trace>>

\* downloadRemoteFile returned: localPath is the destination.
ProcessEntryDownloaded ==
    /\ prog = "upload"
    /\ pc = "dl_ret"
    /\ cur' = [cur EXCEPT !.localPath = cur.dest]
    /\ pc' = "resolved"
    /\ UNCHANGED <<prog, envVars, disk, opening, docVars, fetchVars, countVars, output,
                   exitCode, trace>>

\* downloadRemoteFile threw: processEntry rejects, main's catch runs.
ProcessEntryDownloadFailed ==
    /\ prog = "upload"
    /\ pc = "dl_throw"
    /\ CatchEntryFailure(cur.error)
    /\ trace' = Append(trace, Event("entry", "failed", VideoOf(doc, Entry), idx))
    /\ UNCHANGED <<prog, envVars, disk, opening, cur, fetchVars, output, exitCode>>

\* resolveLocalPath on a local source whose file is accessible.
ProcessEntryLocal ==
    /\ prog = "upload"
    /\ pc = "loop"
    /\ idx <= Len(entries)
    /\ SourceOf(doc, Entry) # <<>>
    /\ ~isRemotePath(SourceOf(doc, Entry))
    /\ Exists(disk, LocalAbsolute(SourceOf(doc, Entry)))
    /\ cur' = [NoLocals EXCEPT !.source = SourceOf(doc, Entry),
                               !.localPath = LocalAbsolute(SourceOf(doc, Entry)),
                               !.call = idx]
    /\ pc' = "resolved"
    /\ UNCHANGED <<prog, envVars, disk, opening, docVars, fetchVars, countVars, output,
                   exitCode, trace>>

\* fs.access rejects: processEntry rejects, main's catch runs.
ProcessEntryLocalMissing ==
    /\ prog = "upload"
    /\ pc = "loop"
    /\ idx <= Len(entries)
    /\ SourceOf(doc, Entry) # <<>>
    /\ ~isRemotePath(SourceOf(doc, Entry))
    /\ ~Exists(disk, LocalAbsolute(SourceOf(doc, Entry)))
    /\ cur' = [NoLocals EXCEPT !.source = SourceOf(doc, Entry),
                               !.error = E_access, !.call = idx]
    /\ CatchEntryFailure(E_access)
    /\ trace' = Append(trace, Event("entry", "failed", VideoOf(doc, Entry), idx))
    /\ UNCHANGED <<prog, envVars, disk, opening, fetchVars, output, exitCode>>

ObjectKey == deriveObjectKey(cur.source, cur.localPath, config.prefix)

\* A membership test that never finds the key.
NeverUploaded(keys, objectKey) == FALSE

\* A membership test that finds every key.
AlwaysUploaded(keys, objectKey) == TRUE

\* `context.uploadedKeys.has(objectKey)`
AlreadyUploaded(keys, objectKey) == objectKey \in keys

\* The key is in uploadedKeys: the result is reused, nothing is uploaded.
ProcessEntryReuse ==
    /\ prog = "upload"
    /\ pc = "resolved"
    /\ AlreadyUploaded(uploadedKeys, ObjectKey)
    /\ TakeResult(ObjectKey, TRUE)
    /\ trace' = Append(trace, Event("entry", "reused", ObjectKey, idx))
    /\ UNCHANGED <<prog, envVars, disk, opening, cur, fetchVars, uploadedKeys, output,
                   exitCode>>

\* uploadToR2 succeeds: the key joins uploadedKeys and the entry is rewritten.
ProcessEntryUpload ==
    /\ prog = "upload"
    /\ pc = "resolved"
    /\ ~AlreadyUploaded(uploadedKeys, ObjectKey)
    /\ uploadedKeys' = uploadedKeys \cup {ObjectKey}
    /\ TakeResult(ObjectKey, FALSE)
    /\ trace' = trace \o <<Event("put", "ok", ObjectKey, idx),
                           Event("entry", "uploaded", ObjectKey, idx)>>
    /\ UNCHANGED <<prog, envVars, disk, opening, cur, fetchVars, output, exitCode>>

\* uploadToR2 rejects: processEntry rejects, main's catch runs.
ProcessEntryUploadFailed ==
    /\ prog = "upload"
    /\ pc = "resolved"
    /\ ~AlreadyUploaded(uploadedKeys, ObjectKey)
    /\ cur' = [cur EXCEPT !.error = E_put]
    /\ CatchEntryFailure(E_put)
    /\ trace' = trace \o <<Event("put", "fail", ObjectKey, idx),
                           Event("entry", "failed", VideoOf(doc, Entry), idx)>>
    /\ UNCHANGED <<prog, envVars, disk, opening, fetchVars, output, exitCode>>

\* The loop is over: write the output file and finish.
UploadWriteOutput ==
    /\ prog = "upload"
    /\ pc = "loop"
    /\ idx > Len(entries)
    /\ output' = doc
    /\ pc' = "done"
    /\ UNCHANGED <<prog, envVars, disk, opening, docVars, cur, fetchVars, countVars,
                   exitCode, trace>>

\* The inputs of the upload run.
V_remoteG == RemoteOrigin \o <<"/", "g">>
V_remoteM == RemoteOrigin \o <<"/", "m">>
V_localG == <<" ", "g">>
V_localM == <<"m">>
V_undecodable == RemoteOrigin \o <<"/", "%">>

\* A document whose entries carry the videos vs: a list nested in an object.
ListDoc(vs) ==
    JObj(<< <<"k1", JStr(<<"u">>)>>,
            <<"k2", JArr([i \in 1..Len(vs) |->
                            JObj(<< <<"k1", JNum(<<"7">>)>>,
                                    <<K_video, JStr(vs[i])>> >>)])>> >>)

\* Entries hold a remote video, a local one with the same key, a local one
\* with another key, a blank one, a URL that does not parse, a URL whose path
\* does not decode, or the empty string.
UploadDocs ==
    {ListDoc(vs) :
        vs \in Strs({V_remoteG, V_localG, V_localM, <<" ">>, S_http,
                     V_undecodable, <<>>}, MaxEntries)}

InitUpload ==
    /\ prog = "upload"
    /\ pc = "main_start"
    /\ LET all == [n \in RequiredEnv \cup {"R2_PREFIX"} |->
                      CASE n = "R2_ACCOUNT_ID" -> <<"a">>
                        [] n = "R2_BUCKET_NAME" -> <<"b">>
                        [] n = "R2_PREFIX" -> <<"p">>
                        [] OTHER -> <<"v">>]
       IN  env \in {all}
               \cup {[n \in DOMAIN all \ {m} |-> all[n]] : m \in RequiredEnv}
               \cup {[all EXCEPT ![m] = <<>>] : m \in RequiredEnv}
    /\ config = NoConfig
    /\ delayMs = DEFAULT_DOWNLOAD_DELAY_MS
    /\ \E some \in SUBSET {<<LocalAbsolute(Trim(V_localG)), "file">>} :
         disk = some \cup {<<LocalAbsolute(V_localM), "file">>}
    /\ opening = EmptyBag
    /\ doc \in UploadDocs
    /\ input = doc
    /\ entries = <<>>
    /\ idx = 0
    /\ cur = NoLocals
    /\ IdleFetch
    /\ uploadedKeys = {}
    /\ uploadCount = 0
    /\ reusedCount = 0
    /\ failureCount = 0
    /\ output = "none"
    /\ exitCode = 0
    /\ trace = <<>>

Next ==
    \/ LoadConfigMissing
    \/ UploadStart
    \/ UploadCollect
    \/ ProcessEntrySkip
    \/ ProcessEntryRemote
    \/ ProcessEntryDownloaded
    \/ ProcessEntryDownloadFailed
    \/ ProcessEntryLocal
    \/ ProcessEntryLocalMissing
    \/ ProcessEntryReuse
    \/ ProcessEntryUpload
    \/ ProcessEntryUploadFailed
    \/ UploadWriteOutput
    \/ DownloadRemoteFile
    \/ OpenCompletes
    \/ FetchSucceed
    \/ FetchFail

Spec == InitUpload /\ [][Next]_vars

----------------------------------------------------------------------------
(* Claims about the upload driver *)

EntryEvents == SelectSeq(trace, LAMBDA e : e.op = "entry")

\* Entry i was rewritten: its processing ended in an upload or a reuse.
Succeeded(i) ==
    \E k \in 1..Len(EntryEvents) :
        EntryEvents[k].n = i /\ EntryEvents[k].what \in {"uploaded", "reused"}

Failed(i) ==
    \E k \in 1..Len(EntryEvents) :
        EntryEvents[k].n = i /\ EntryEvents[k].what = "failed"

\* The object key entry i resolved to.
KeyOfEntry(i) ==
    (CHOOSE e \in {EntryEvents[k] : k \in 1..Len(EntryEvents)} :
        e.n = i /\ e.what \in {"uploaded", "reused"}).s

PutCalls(key) ==
    Cardinality({k \in 1..Len(trace) : trace[k].op = "put" /\ trace[k].s = key})

PutSuccesses(key) ==
    Cardinality({k \in 1..Len(trace) :
                    trace[k].op = "put" /\ trace[k].what = "ok" /\ trace[k].s = key})

SameKeyPair(i, j) ==
    /\ i # j
    /\ Succeeded(i)
    /\ Succeeded(j)
    /\ KeyOfEntry(i) = KeyOfEntry(j)

BothRewrittenEqual(i, j) ==
    /\ VideoOf(doc, entries[i]) = buildPublicUrl(config, KeyOfEntry(i))
    /\ VideoOf(doc, entries[i]) # VideoOf(input, entries[i])
    /\ VideoOf(doc, entries[j]) # VideoOf(input, entries[j])
    /\ VideoOf(doc, entries[i]) = VideoOf(doc, entries[j])

\* C1 as stated: two entries that resolve to the same key and do not fail
\* cause exactly one PUT call for that key, and both are rewritten to the
\* same URL.
C1_ExactlyOnePutCall ==
    pc = "done" =>
        \A i, j \in 1..Len(entries) :
            SameKeyPair(i, j) =>
                PutCalls(KeyOfEntry(i)) = 1 /\ BothRewrittenEqual(i, j)

\* C1 amended: exactly one PUT call for that key succeeds (a PUT that failed
\* for another entry of the same key is tried again by the next one), and
\* both entries are rewritten to the same URL.
C1_ExactlyOnePutSuccess ==
    pc = "done" =>
        \A i, j \in 1..Len(entries) :
            SameKeyPair(i, j) =>
                /\ PutSuccesses(KeyOfEntry(i)) = 1
                /\ PutCalls(KeyOfEntry(i)) =
                      1 + Cardinality({k \in 1..Len(trace) :
                                          /\ trace[k].op = "put"
                                          /\ trace[k].what = "fail"
                                          /\ trace[k].s = KeyOfEntry(i)})
                /\ BothRewrittenEqual(i, j)

\* A remote and a local entry resolved to the same key, both rewritten.
C1_Witness ==
    /\ pc = "done"
    /\ \E i, j \in 1..Len(entries) :
         /\ SameKeyPair(i, j)
         /\ isRemotePath(SourceOf(input, entries[i]))
         /\ ~isRemotePath(SourceOf(input, entries[j]))

\* C5: a failing entry is caught and counted once, keeps its video, does not
\* stop the entries after it, and the run still writes its output and ends
\* with exit status 0.
C5_FailureIsolation ==
    /\ prog = "upload" /\ pc \notin {"main_start", "main_read", "exit"} =>
         /\ failureCount =
               Cardinality({i \in 1..Len(entries) : Failed(i)})
         /\ \A k \in 1..Len(EntryEvents) : EntryEvents[k].n = k
         /\ Len(EntryEvents) \in {idx - 1, idx}
         /\ \A i \in 1..Len(entries) :
              Failed(i) => /\ ~Succeeded(i)
                           /\ VideoOf(doc, entries[i]) = VideoOf(input, entries[i])
         /\ exitCode = 0
    /\ pc = "exit" => EntryEvents = <<>>
    /\ pc = "done" =>
         /\ Len(EntryEvents) = Len(entries)
         /\ output = doc
         /\ \A i \in 1..Len(entries) :
              Succeeded(i) =>
                 VideoOf(output, entries[i]) = buildPublicUrl(config, KeyOfEntry(i))

\* A failed download, then a failed PUT, then an entry that is uploaded.
C5_Witness ==
    /\ pc = "done"
    /\ failureCount = 2
    /\ Len(entries) = 3
    /\ Failed(1)
    /\ Failed(2)
    /\ Succeeded(3)
    /\ PutCalls(KeyOfEntry(3)) >= 2
    /\ \E k \in 1..Len(trace) : trace[k].op = "fetch" /\ trace[k].n = 3
                                   /\ trace[k].what = "fail"

----------------------------------------------------------------------------
(* convertMp4ToGif.js: downloadFile(url, destination) *)

DownloadFileCacheHit ==
    /\ pc = "dl_begin"
    /\ cur.routine = "downloadFile"
    /\ CacheHit(disk, cur.dest)
    /\ trace' = Append(trace, Event("cachehit", KindOf(disk, cur.dest), cur.dest,
                                    cur.call))
    /\ pc' = "dl_ret"
    /\ UNCHANGED <<prog, envVars, disk, opening, docVars, cur, fetchVars, countVars,
                   output, exitCode>>

\* The single fetch rejects, or the response is not ok or has no body.
DownloadFileFetchFail ==
    /\ pc = "dl_begin"
    /\ cur.routine = "downloadFile"
    /\ ~CacheHit(disk, cur.dest)
    /\ \E kind \in FailureKinds :
         cur' = [cur EXCEPT !.error = ErrorOf(kind)]
    /\ trace' = Append(trace, Event("fetch", "fail", cur.url, 1))
    /\ pc' = "dl_throw"
    /\ UNCHANGED <<prog, envVars, disk, opening, docVars, fetchVars, countVars, output,
                   exitCode>>

DownloadFileFetchOk ==
    /\ pc = "dl_begin"
    /\ cur.routine = "downloadFile"
    /\ ~CacheHit(disk, cur.dest)
    /\ trace' = Append(trace, Event("fetch", "ok", cur.url, 1))
    /\ pc' = "df_body"
    /\ UNCHANGED <<prog, envVars, disk, opening, docVars, cur, fetchVars, countVars,
                   output, exitCode>>

DownloadFileStreamOk ==
    /\ pc = "df_body"
    /\ disk' = Put(disk, cur.dest, "file")
    /\ UNCHANGED opening
    /\ trace' = Append(trace, Event("stream", "ok", cur.dest, cur.call))
    /\ pc' = "dl_ret"
    /\ UNCHANGED <<prog, envVars, docVars, cur, fetchVars, countVars, output,
                   exitCode>>

\* pipeline rejects: the open of the destination has completed (a truncated
\* file is there) or is still in flight.
DownloadFileStreamFail ==
    /\ pc = "df_body"
    /\ \E opened \in BOOLEAN :
         IF opened
         THEN /\ disk' = Put(disk, cur.dest, "partial")
              /\ opening' = opening
         ELSE /\ disk' = disk
              /\ opening' = opening (+) SetToBag({cur.dest})
    /\ cur' = [cur EXCEPT !.error = E_stream]
    /\ trace' = Append(trace, Event("stream", "fail", cur.dest, cur.call))
    /\ pc' = "dl_throw"
    /\ UNCHANGED <<prog, envVars, docVars, fetchVars, countVars, output,
                   exitCode>>

DownloadFile ==
    \/ DownloadFileCacheHit
    \/ DownloadFileFetchFail
    \/ DownloadFileFetchOk
    \/ DownloadFileStreamOk
    \/ DownloadFileStreamFail

----------------------------------------------------------------------------
(* convertMp4ToGif.js: processEntry, main *)

S_mp4 == <<".", "m", "p", "4">>
S_gif == <<".", "g", "i", "f">>

\* entry.video && entry.video.toLowerCase().endsWith('.mp4')
IsMp4(video) == video # <<>> /\ EndsWith(ToLower(video), S_mp4)

\* extractFilenameFromUrl(url); FilenameOk is FALSE where it throws.
FilenameOk(url) == URLValid(url) /\ Decodable(pathBasename(URLPathname(url)))
extractFilenameFromUrl(url) == decodeURIComponent(pathBasename(URLPathname(url)))

\* The position of the last "." of s, 0 if none.
RECURSIVE LastDot(_, _)
LastDot(s, i) == IF i = 0 THEN 0 ELSE IF s[i] = "." THEN i ELSE LastDot(s, i - 1)

\* filename.replace(/\.[^.]+$/u, '')
StripExtension(filename) ==
    LET d == LastDot(filename, Len(filename))
    IN  IF d = 0 \/ d = Len(filename) THEN filename ELSE Take(filename, d - 1)

\* A path left absolute.
normalizePathAbsolute(filePath) == filePath

\* `path.relative(__dirname, filePath).split(path.sep).join('/')`
normalizePath(filePath) ==
    Join(Split(pathRelative(DIRNAME, filePath), PATH_SEP, <<>>), <<"/">>)

LocalMp4Path(url) == pathJoin(CONVERT_DOWNLOAD_DIR, extractFilenameFromUrl(url))
LocalGifPath(url) ==
    pathJoin(GIF_DIR, StripExtension(extractFilenameFromUrl(url)) \o S_gif)

\* A driver that catches the failure of an entry and goes on with the next.
ContinueAfterFailure ==
    /\ idx' = idx + 1
    /\ pc' = "c_loop"
    /\ UNCHANGED <<input, doc, entries, output, exitCode>>

\* processEntry rejects: main rejects, and main().catch sets the exit code.
AbortRun ==
    /\ exitCode' = 1
    /\ pc' = "exit"
    /\ UNCHANGED <<input, doc, entries, idx, output>>

\* ensureDirectories
ConvertStart ==
    /\ prog = "convert"
    /\ pc = "c_start"
    /\ disk' = Mkdir(Mkdir(disk, CONVERT_DOWNLOAD_DIR), GIF_DIR)
    /\ UNCHANGED opening
    /\ trace' = trace \o <<Event("fs", "mkdir", CONVERT_DOWNLOAD_DIR, 0),
                           Event("fs", "mkdir", GIF_DIR, 0)>>
    /\ pc' = "c_read"
    /\ UNCHANGED <<prog, envVars, docVars, cur, fetchVars, countVars, output,
                   exitCode>>

\* readVideoList and collectVideoEntries
ConvertCollect ==
    /\ prog = "convert"
    /\ pc = "c_read"
    /\ entries' = collectVideoEntries(doc, <<>>)
    /\ idx' = 1
    /\ trace' = Append(trace, Event("fs", "read", <<>>, 0))
    /\ pc' = "c_loop"
    /\ UNCHANGED <<prog, envVars, disk, opening, input, doc, cur, fetchVars, countVars,
                   output, exitCode>>

\* The entry is no MP4 reference: main's loop passes over it.
ConvertSkip ==
    /\ prog = "convert"
    /\ pc = "c_loop"
    /\ idx <= Len(entries)
    /\ ~IsMp4(VideoOf(doc, Entry))
    /\ idx' = idx + 1
    /\ trace' = Append(trace, Event("entry", "skipped", VideoOf(doc, Entry), idx))
    /\ UNCHANGED <<prog, pc, envVars, disk, opening, input, doc, entries, cur,
                   fetchVars, countVars, output, exitCode>>

\* extractFilenameFromUrl catches what new URL or decodeURIComponent throws
\* and throws `Unable to parse URL "${url}": ${error.message}`.
E_parse(url) ==
    [msg |-> IF URLValid(url) THEN "Unable to parse URL: URI malformed"
                              ELSE "Unable to parse URL: Invalid URL",
     namesUrl |-> TRUE, namesAttempts |-> FALSE]

\* extractFilenameFromUrl throws: the run fails.
ConvertBadUrl ==
    /\ prog = "convert"
    /\ pc = "c_loop"
    /\ idx <= Len(entries)
    /\ IsMp4(VideoOf(doc, Entry))
    /\ ~FilenameOk(VideoOf(doc, Entry))
    /\ cur' = [NoLocals EXCEPT !.url = VideoOf(doc, Entry),
                               !.error = E_parse(VideoOf(doc, Entry)),
                               !.call = idx]
    /\ trace' = Append(trace, Event("entry", "failed", VideoOf(doc, Entry), idx))
    /\ AbortRun
    /\ UNCHANGED <<prog, envVars, disk, opening, fetchVars, countVars>>

\* processEntry up to its call of downloadFile(originalUrl, localMp4Path).
ConvertEntry ==
    /\ prog = "convert"
    /\ pc = "c_loop"
    /\ idx <= Len(entries)
    /\ IsMp4(VideoOf(doc, Entry))
    /\ FilenameOk(VideoOf(doc, Entry))
    /\ cur' = [NoLocals EXCEPT !.url = VideoOf(doc, Entry),
                               !.dest = LocalMp4Path(VideoOf(doc, Entry)),
                               !.gif = LocalGifPath(VideoOf(doc, Entry)),
                               !.routine = "downloadFile",
                               !.call = idx]
    /\ pc' = "dl_begin"
    /\ UNCHANGED <<prog, envVars, disk, opening, docVars, fetchVars, countVars, output,
                   exitCode, trace>>

\* downloadFile rejects: the run fails.
ConvertDownloadFailed ==
    /\ prog = "convert"
    /\ pc = "dl_throw"
    /\ trace' = Append(trace, Event("entry", "failed", VideoOf(doc, Entry), idx))
    /\ AbortRun
    /\ UNCHANGED <<prog, envVars, disk, opening, cur, fetchVars, countVars>>

\* convertToGif resolves: the GIF exists and the entry is rewritten.
ConvertTranscodeOk ==
    /\ prog = "convert"
    /\ pc = "dl_ret"
    /\ disk' = Put(disk, cur.gif, "file")
    /\ UNCHANGED opening
    /\ doc' = SetVideo(doc, Entry, normalizePath(cur.gif))
    /\ trace' = trace \o <<Event("transcode", "ok", cur.gif, idx),
                           Event("entry", "converted", cur.gif, idx)>>
    /\ idx' = idx + 1
    /\ pc' = "c_loop"
    /\ UNCHANGED <<prog, envVars, input, entries, cur, fetchVars, countVars,
                   output, exitCode>>

\* convertToGif rejects (ffmpeg's error event): the run fails.
ConvertTranscodeFail ==
    /\ prog = "convert"
    /\ pc = "dl_ret"
    /\ trace' = trace \o <<Event("transcode", "fail", cur.gif, idx),
                           Event("entry", "failed", VideoOf(doc, Entry), idx)>>
    /\ AbortRun
    /\ UNCHANGED <<prog, envVars, disk, opening, cur, fetchVars, countVars>>

ConvertWriteOutput ==
    /\ prog = "convert"
    /\ pc = "c_loop"
    /\ idx > Len(entries)
    /\ output' = doc
    /\ pc' = "done"
    /\ UNCHANGED <<prog, envVars, disk, opening, docVars, cur, fetchVars, countVars,
                   exitCode, trace>>

\* The inputs of the convert run.
V_mp4 == RemoteOrigin \o <<"/", "y", "/", "c">> \o S_mp4
V_MP4 == RemoteOrigin \o <<"/", "c", ".", "M", "P", "4">>

\* Entries hold two remote .mp4 videos, a remote .gif, an .mp4 reference that
\* is no URL, or the empty string.
ConvertDocs ==
    {ListDoc(vs) :
        vs \in Strs({V_mp4, V_MP4, RemoteOrigin \o <<"/", "g">> \o S_gif,
                     <<"c">> \o S_mp4, <<>>}, MaxEntries)}

\* What an earlier run can have left in the download directory.
CachedBefore(dest) == {{}, {<<dest, "file">>}, {<<dest, "partial">>}}

InitConvert ==
    /\ prog = "convert"
    /\ pc = "c_start"
    /\ env = <<>>
    /\ config = NoConfig
    /\ delayMs = 0
    /\ disk \in CachedBefore(LocalMp4Path(V_mp4))
    /\ opening = EmptyBag
    /\ doc \in ConvertDocs
    /\ input = doc
    /\ entries = <<>>
    /\ idx = 0
    /\ cur = NoLocals
    /\ IdleFetch
    /\ uploadedKeys = {}
    /\ uploadCount = 0
    /\ reusedCount = 0
    /\ failureCount = 0
    /\ output = "none"
    /\ exitCode = 0
    /\ trace = <<>>

NextConvert ==
    \/ ConvertStart
    \/ ConvertCollect
    \/ ConvertSkip
    \/ ConvertBadUrl
    \/ ConvertEntry
    \/ ConvertDownloadFailed
    \/ ConvertTranscodeOk
    \/ ConvertTranscodeFail
    \/ ConvertWriteOutput
    \/ DownloadFile
    \/ OpenCompletes

SpecConvert == InitConvert /\ [][NextConvert]_vars

----------------------------------------------------------------------------
(* A fetch-or-download routine called twice with the same destination *)

\* The first call is over: note how it ended and what it left at the
\* destination (1: a file; 2: no file, but an open in flight; 0: neither),
\* and call again.
CallAgain ==
    /\ prog = "cache"
    /\ pc \in {"dl_ret", "dl_throw"}
    /\ cur.call = 1
    /\ trace' = Append(trace,
                       Event("call", IF pc = "dl_ret" THEN "returned" ELSE "threw",
                             cur.dest,
                             IF Exists(disk, cur.dest) THEN 1
                             ELSE IF BagIn(cur.dest, opening) THEN 2 ELSE 0))
    /\ cur' = [cur EXCEPT !.call = 2, !.error = NoError]
    /\ pc' = "dl_begin"
    /\ UNCHANGED <<prog, envVars, disk, opening, docVars, fetchVars, countVars,
                   output, exitCode>>

\* The two calls can follow earlier calls of the same process: a file, whole
\* or truncated, can be at the destination, and the open issued by an earlier
\* call whose stream failed can still be in flight.
InitCache ==
    /\ prog = "cache"
    /\ pc = "dl_begin"
    /\ env = <<>>
    /\ config = NoConfig
    /\ delayMs \in {0, DEFAULT_DOWNLOAD_DELAY_MS}
    /\ \/ \E url \in {V_remoteG, V_remoteM} :
            /\ cur = [NoLocals EXCEPT !.url = url,
                                      !.dest = DownloadDestination(url),
                                      !.routine = "downloadRemoteFile",
                                      !.call = 1]
            /\ \E before \in CachedBefore(DownloadDestination(url)) :
                  disk = before \cup {<<DOWNLOAD_DIR, "dir">>}
       \/ \E url \in {V_mp4, V_MP4} :
            /\ cur = [NoLocals EXCEPT !.url = url,
                                      !.dest = LocalMp4Path(url),
                                      !.routine = "downloadFile",
                                      !.call = 1]
            /\ \E before \in CachedBefore(LocalMp4Path(url)) :
                  disk = before \cup {<<CONVERT_DOWNLOAD_DIR, "dir">>}
    /\ opening \in {EmptyBag, SetToBag({cur.dest})}
    /\ IdleDoc
    /\ IdleFetch
    /\ uploadedKeys = {}
    /\ uploadCount = 0
    /\ reusedCount = 0
    /\ failureCount = 0
    /\ output = "none"
    /\ exitCode = 0
    /\ trace = <<>>

\* Every URL drawn here parses, so downloadRemoteFile always has a destination.
NextCache ==
    \/ CallAgain
    \/ DownloadRemoteCacheHit
    \/ DownloadRemoteMiss
    \/ DownloadRemoteFetchThrew
    \/ DownloadRemoteStreamOk
    \/ DownloadRemoteStreamFail
    \/ DownloadFile
    \/ OpenCompletes
    \/ FetchSucceed
    \/ FetchFail

SpecCache == InitCache /\ [][NextCache]_vars

----------------------------------------------------------------------------
(* Claims about the convert driver *)

IsFailure(e) == e.op \in {"fetch", "stream", "transcode"} /\ e.what = "fail"

IsWork(e) == e.op \in {"fetch", "stream", "transcode", "cachehit"}

\* C6: when the download or the transcode of an MP4 entry fails, the run
\* ends with a non-zero exit status, nothing is downloaded or transcoded after
\* the failure, and the output file is not written.
C6_FailFast ==
    prog = "convert" =>
        /\ \A k \in 1..Len(trace) :
             IsFailure(trace[k]) =>
                /\ pc \in {"dl_throw", "exit"}
                /\ \A later \in (k + 1)..Len(trace) : ~IsWork(trace[later])
                /\ output = "none"
        /\ pc = "exit" =>
             /\ exitCode # 0
             /\ output = "none"
             /\ \A j \in (idx + 1)..Len(entries) :
                  VideoOf(doc, entries[j]) = VideoOf(input, entries[j])
             /\ \A k \in 1..Len(trace) : trace[k].op = "entry" => trace[k].n <= idx
        /\ pc = "done" =>
             /\ exitCode = 0
             /\ output = doc
             /\ \A k \in 1..Len(trace) : ~IsFailure(trace[k])
        /\ exitCode # 0 => pc = "exit"

\* Entry 1 converted, the transcode of entry 2 failed, entry 3 (an MP4) was
\* never started.
C6_Witness ==
    /\ prog = "convert"
    /\ pc = "exit"
    /\ Len(entries) = 3
    /\ idx = 2
    /\ doc # input
    /\ IsMp4(VideoOf(doc, entries[3]))
    /\ trace[Len(trace) - 1].op = "transcode"
    /\ trace[Len(trace) - 1].what = "fail"

----------------------------------------------------------------------------
(* Claims about the download cache *)

\* The position in the trace where the second call starts, 0 before it.
SecondCallAt ==
    IF \E k \in 1..Len(trace) : trace[k].op = "call"
    THEN CHOOSE k \in 1..Len(trace) : trace[k].op = "call"
    ELSE 0

FetchedInSecondCall ==
    /\ SecondCallAt > 0
    /\ \E k \in (SecondCallAt + 1)..Len(trace) : trace[k].op = "fetch"

----------------------------------------------------------------------------
(* Claims about the throttle of downloadRemoteFile *)

\* The call (1 or 2) that trace event k belongs to.
CallOf(k) == IF SecondCallAt > 0 /\ k > SecondCallAt THEN 2 ELSE 1

IsThrottle(e) == e.op = "delay" /\ e.what = "throttle"

ThrottlesIn(c) ==
    Cardinality({k \in 1..Len(trace) : IsThrottle(trace[k]) /\ CallOf(k) = c})

\* A cache hit is the only event of its call: no wait, no fetch, no stream.
CacheHitIsQuiet ==
    \A k \in 1..Len(trace) :
        trace[k].op = "cachehit" =>
            \A j \in 1..Len(trace) :
                (j # k /\ CallOf(j) = CallOf(k)) => trace[j].op = "call"

\* C11 as stated: a cache hit waits and fetches nothing, and with a throttle
\* > 0 every fetch the call performs has the throttle wait right before it.
C11_ThrottleBeforeEachFetch ==
    (prog = "cache" /\ cur.routine = "downloadRemoteFile") =>
        /\ CacheHitIsQuiet
        /\ delayMs > 0 =>
              \A k \in 1..Len(trace) :
                  trace[k].op = "fetch" =>
                      /\ k > 1
                      /\ IsThrottle(trace[k - 1])
                      /\ trace[k - 1].n = delayMs

\* C11 amended: a cache hit waits and fetches nothing; on a miss with a
\* throttle > 0 the throttle wait happens exactly once per call, right before
\* the first fetch attempt; every later attempt of the call is preceded by the
\* backoff wait of fetchWithRetry and not by the throttle; with a throttle of
\* 0 there is no throttle wait at all.
C11_ThrottleOncePerMiss ==
    (prog = "cache" /\ cur.routine = "downloadRemoteFile") =>
        /\ CacheHitIsQuiet
        /\ \A k \in 1..Len(trace) :
              /\ (trace[k].op = "fetch" /\ trace[k].n = 1) =>
                    IF delayMs > 0
                    THEN /\ k > 1
                         /\ IsThrottle(trace[k - 1])
                         /\ trace[k - 1].n = delayMs
                         /\ CallOf(k - 1) = CallOf(k)
                    ELSE k = 1 \/ trace[k - 1].op # "delay"
              /\ (trace[k].op = "fetch" /\ trace[k].n > 1) =>
                    /\ trace[k - 1].op = "delay"
                    /\ trace[k - 1].what = "backoff"
              /\ IsThrottle(trace[k]) =>
                    /\ delayMs > 0
                    /\ IF k < Len(trace)
                       THEN trace[k + 1].op = "fetch" /\ trace[k + 1].n = 1
                       ELSE pc = "fr_loop" /\ attempt = 0
        /\ \A c \in {1, 2} : ThrottlesIn(c) <= 1

\* One call that missed, waited the throttle once and fetched three times.
C11_Witness ==
    /\ prog = "cache"
    /\ cur.routine = "downloadRemoteFile"
    /\ delayMs > 0
    /\ SecondCallAt = 0
    /\ pc = "dl_ret"
    /\ ThrottlesIn(1) = 1
    /\ \E k \in 1..Len(trace) : trace[k].op = "fetch" /\ trace[k].n = 3

----------------------------------------------------------------------------
(* Claims about the rewriting done by the convert driver *)

TranscodesOf(i) ==
    {k \in 1..Len(trace) : trace[k].op = "transcode" /\ trace[k].n = i}

\* The download step of entry i returned: a cache hit or a completed stream.
DownloadStepsOf(i) ==
    {k \in 1..Len(trace) :
        /\ trace[k].n = i
        /\ \/ trace[k].op = "cachehit"
           \/ trace[k].op = "stream" /\ trace[k].what = "ok"}

\* gifs/<basename>.gif, the basename being the last segment of the URL path
\* without its extension.
GifLink(url) ==
    <<"g", "i", "f", "s", "/">>
        \o StripExtension(extractFilenameFromUrl(url)) \o S_gif

\* C15 as stated: when the run is over, the transcoder has been invoked
\* exactly once for every entry whose video ends in .mp4 (case-insensitively),
\* and such an entry reads gifs/<basename>.gif only if its download step and
\* its transcode both succeeded.
C15_TranscodedExactlyOnce ==
    (prog = "convert" /\ pc \in {"done", "exit"}) =>
        \A i \in 1..Len(entries) :
            IsMp4(VideoOf(input, entries[i])) =>
                /\ Cardinality(TranscodesOf(i)) = 1
                /\ VideoOf(doc, entries[i]) # VideoOf(input, entries[i]) =>
                      /\ VideoOf(doc, entries[i])
                            = GifLink(VideoOf(input, entries[i]))
                      /\ DownloadStepsOf(i) # {}
                      /\ \E k \in TranscodesOf(i) : trace[k].what = "ok"

\* C15 amended: for an entry whose video ends in .mp4 (case-insensitively)
\* the transcoder runs at most once, and exactly once as soon as the download
\* step of the entry has returned, be it a cache hit or not and whether or not
\* the GIF exists; it never runs for an entry whose download step has not
\* returned (the URL does not parse, the download failed, or an earlier
\* failure ended the run); in a run that reaches its end it has run once for
\* every such entry. The entry reads gifs/<basename>.gif only after its
\* download step and its transcode both succeeded, and is untouched before;
\* other entries are never transcoded.
C15_Relink ==
    prog = "convert" =>
        \A i \in 1..Len(entries) :
            LET was == VideoOf(input, entries[i])
                now == VideoOf(doc, entries[i])
                oks == {k \in TranscodesOf(i) : trace[k].what = "ok"}
            IN  IF IsMp4(was)
                THEN /\ Cardinality(TranscodesOf(i)) <= 1
                     /\ Cardinality(DownloadStepsOf(i)) <= 1
                     /\ (DownloadStepsOf(i) # {} /\ ~(pc = "dl_ret" /\ idx = i)) =>
                           Cardinality(TranscodesOf(i)) = 1
                     /\ (i < idx \/ pc = "done") => Cardinality(oks) = 1
                     /\ \A k \in TranscodesOf(i) :
                           \E d \in DownloadStepsOf(i) : d < k
                     /\ IF oks # {} THEN now = GifLink(was) ELSE now = was
                     /\ \A k \in oks : Exists(disk, LocalGifPath(was))
                ELSE /\ TranscodesOf(i) = {}
                     /\ now = was

\* http://h/y/c.mp4 twice: the second entry found the MP4 cached and the GIF
\* present, was transcoded all the same, and both read gifs/c.gif.
C15_Witness ==
    /\ prog = "convert"
    /\ pc = "done"
    /\ Len(entries) >= 2
    /\ VideoOf(input, entries[1]) = V_mp4
    /\ VideoOf(input, entries[2]) = V_mp4
    /\ \E k \in DownloadStepsOf(2) : trace[k].op = "cachehit"
    /\ \E k \in TranscodesOf(2) : trace[k].what = "ok"
    /\ VideoOf(output, entries[1]) = <<"g", "i", "f", "s", "/", "c", ".", "g", "i", "f">>
    /\ VideoOf(output, entries[2]) = <<"g", "i", "f", "s", "/", "c", ".", "g", "i", "f">>

----------------------------------------------------------------------------
(* Claims about re-running after a failed download *)

\* C14: whenever downloadFile or downloadRemoteFile returns a cache hit, the
\* file at the destination is the complete body of a download that finished;
\* a file left incomplete by a stream error, in an earlier call or an earlier
\* run, is never taken for a cache hit.
C14_CacheHitOnlyOnCompleteFile ==
    prog = "cache" =>
        \A k \in 1..Len(trace) :
            trace[k].op = "cachehit" =>
                /\ trace[k].what = "file"
                /\ \A j \in 1..(k - 1) :
                      ~(trace[j].op = "stream" /\ trace[j].what = "fail"
                        /\ trace[j].s = trace[k].s)

----------------------------------------------------------------------------
(* Claims about the uploaded-key set and the counters *)

\* A PUT for `key` completed successfully before trace position k.
PutOkBefore(key, k) ==
    \E j \in 1..(k - 1) :
        trace[j].op = "put" /\ trace[j].what = "ok" /\ trace[j].s = key

\* C17: a key is in uploadedKeys only if a PUT for it succeeded earlier in
\* the run; a failed PUT adds nothing, so the next entry with that key is
\* uploaded again and not reported as reused; and an entry is rewritten only
\* to the URL of a key that had a successful PUT in this run.
C17_UploadedKeysSound ==
    prog = "upload" =>
        /\ uploadedKeys =
              {trace[k].s : k \in {j \in 1..Len(trace) :
                                     trace[j].op = "put" /\ trace[j].what = "ok"}}
        /\ \A k \in 1..Len(trace) :
              /\ (trace[k].op = "entry" /\ trace[k].what = "reused") =>
                    PutOkBefore(trace[k].s, k)
              /\ trace[k].op = "put" => ~PutOkBefore(trace[k].s, k)
              /\ (trace[k].op = "entry" /\ trace[k].what = "uploaded") =>
                    /\ trace[k - 1].op = "put"
                    /\ trace[k - 1].what = "ok"
                    /\ trace[k - 1].s = trace[k].s
        /\ \A i \in 1..Len(entries) :
              IF Succeeded(i)
              THEN /\ KeyOfEntry(i) \in uploadedKeys
                   /\ VideoOf(doc, entries[i]) = buildPublicUrl(config, KeyOfEntry(i))
              ELSE VideoOf(doc, entries[i]) = VideoOf(input, entries[i])

\* The PUT of a key failed for entry 1, was made again and succeeded for
\* entry 2, and entry 3 reused it.
C17_Witness ==
    /\ prog = "upload"
    /\ pc = "done"
    /\ Len(entries) = 3
    /\ Failed(1)
    /\ \E k \in 1..Len(trace) :
         /\ trace[k].op = "put" /\ trace[k].what = "fail" /\ trace[k].n = 1
         /\ uploadedKeys = {trace[k].s}
    /\ \E k \in 1..Len(EntryEvents) :
         EntryEvents[k].n = 2 /\ EntryEvents[k].what = "uploaded"
    /\ \E k \in 1..Len(EntryEvents) :
         EntryEvents[k].n = 3 /\ EntryEvents[k].what = "reused"

\* The entries processEntry returns null for: video empty or blank.
SkippedEntries ==
    {i \in 1..Len(entries) : Trim(VideoOf(input, entries[i])) = <<>>}

\* C18: when the loop of the upload driver has ended, uploadCount +
\* reusedCount + failureCount + the number of skipped entries is the number of
\* collected entries; uploadCount is the size of uploadedKeys and the number
\* of successful PUTs; and uploadCount + reusedCount entries were rewritten.
C18_CounterAccounting ==
    (prog = "upload" /\ pc \in {"loop", "done"} /\ idx > Len(entries)) =>
        /\ uploadCount + reusedCount + failureCount + Cardinality(SkippedEntries)
              = Len(entries)
        /\ uploadCount = Cardinality(uploadedKeys)
        /\ uploadCount =
              Cardinality({k \in 1..Len(trace) :
                              trace[k].op = "put" /\ trace[k].what = "ok"})
        /\ failureCount = Cardinality({i \in 1..Len(entries) : Failed(i)})
        /\ Cardinality({i \in 1..Len(entries) : Succeeded(i)})
              = uploadCount + reusedCount
        /\ Cardinality({i \in 1..Len(entries) :
                           VideoOf(doc, entries[i]) # VideoOf(input, entries[i])})
              = uploadCount + reusedCount

\* The loop ended after one upload, one reuse and one skipped entry.
C18_Witness ==
    /\ prog = "upload"
    /\ pc = "loop"
    /\ idx > Len(entries)
    /\ Len(entries) = 3
    /\ uploadCount = 1
    /\ reusedCount = 1
    /\ failureCount = 0
    /\ Cardinality(SkippedEntries) = 1

----------------------------------------------------------------------------
(* Claims about loadConfig *)

\* A required variable is absent or empty.
MissingEnv ==
    \E name \in RequiredEnv : name \notin DOMAIN env \/ env[name] = <<>>

\* C13: with a required environment variable absent or empty the upload run
\* ends with the configuration error and a non-zero exit status before any
\* processing: no directory is created, the input is not read, nothing is
\* downloaded or uploaded, and no output is written.
C13_ConfigFailFast ==
    prog = "upload" =>
        /\ MissingEnv =>
              /\ pc \in {"main_start", "exit"}
              /\ trace = <<>>
              /\ ~Exists(disk, DOWNLOAD_DIR)
              /\ entries = <<>>
              /\ uploadedKeys = {}
              /\ output = "none"
              /\ pc = "exit" => exitCode = 1 /\ cur.error = E_config
        /\ pc = "exit" => MissingEnv

\* The run ended on a variable that is set but empty, with entries to process.
C13_Witness ==
    /\ prog = "upload"
    /\ pc = "exit"
    /\ RequiredEnv \subseteq DOMAIN env
    /\ env["R2_BUCKET_NAME"] = <<>>
    /\ Len(collectVideoEntries(input, <<>>)) = 3
    /\ isRemotePath(VideoOf(input, collectVideoEntries(input, <<>>)[1]))

----------------------------------------------------------------------------
(* The two drivers, each run from its own initial state *)

InitDrivers == InitUpload \/ InitConvert

NextDrivers == Next \/ NextConvert

SpecDrivers == InitDrivers /\ [][NextDrivers]_vars

----------------------------------------------------------------------------
(* Claims about both drivers *)

\* Two JSON values that differ at most in the string values of `video`
\* properties: same types, same keys in the same order, same other values.
RECURSIVE SameExceptVideo(_, _)
SameExceptVideo(a, b) ==
    /\ a.t = b.t
    /\ Len(a.kids) = Len(b.kids)
    /\ \A i \in 1..Len(a.kids) :
         /\ a.kids[i][1] = b.kids[i][1]
         /\ IF /\ a.t = "obj"
               /\ a.kids[i][1] = K_video
               /\ a.kids[i][2].t = "str"
               /\ b.kids[i][2].t = "str"
            THEN TRUE
            ELSE SameExceptVideo(a.kids[i][2], b.kids[i][2])
    /\ a.kids = <<>> => a.v = b.v

\* The entry whose processing trace event k belongs to: one more than the
\* number of entries whose outcome was recorded before k.
EntryAt(k) ==
    1 + Cardinality({j \in 1..(k - 1) : trace[j].op = "entry"})

\* What holds of the document and the trace in every state of a run.
OneEntryAtATime ==
    /\ pc \notin {"main_start", "main_read", "c_start", "c_read", "exit"} =>
          /\ entries = collectVideoEntries(input, <<>>)
          /\ entries = collectVideoEntries(doc, <<>>)
          /\ SameExceptVideo(input, doc)
    /\ \A k \in 1..Len(trace) :
          /\ trace[k].op \in {"entry", "put", "cachehit", "stream", "transcode"} =>
                trace[k].n = EntryAt(k)
          /\ trace[k].op = "entry" => EntryAt(k) <= Len(entries)
    /\ \A i \in 1..Len(entries) :
          VideoOf(doc, entries[i]) # VideoOf(input, entries[i]) => i < idx

\* What holds of every step of a run.
OneWritePerStep ==
    /\ doc' # doc =>
          /\ idx \in 1..Len(entries)
          /\ idx' = idx + 1
          /\ entries' = entries
          /\ VideoOf(doc, entries[idx]) = VideoOf(input, entries[idx])
          /\ \A i \in 1..Len(entries) :
                i # idx => NodeAt(doc', entries[i]) = NodeAt(doc, entries[i])
    /\ idx' # idx => idx' = idx + 1
    /\ entries' # entries => pc \in {"main_read", "c_read"}

\* C16: in a run of either driver the video of a collected entry is written
\* at most once, the entries are processed one after the other in collection
\* order, and the document never gains or loses an entry.
C16_SingleMutation == []OneEntryAtATime /\ [][OneWritePerStep]_vars

\* An upload run in which all three entries were rewritten, one by reuse.
C16_Witness ==
    /\ prog = "upload"
    /\ pc = "done"
    /\ Len(entries) = 3
    /\ \A i \in 1..3 : Succeeded(i)
    /\ reusedCount >= 1
    /\ uploadCount = 2

\* C12: the document a run writes equals the input document except for the
\* `video` strings of collected entries; the convert driver leaves every entry
\* whose video does not end in .mp4 (case-insensitively) unchanged, the upload
\* driver every entry whose video is empty or blank or whose processing failed.
C12_Frame ==
    pc = "done" =>
        /\ output = doc
        /\ SameExceptVideo(input, output)
        /\ \A i \in 1..Len(entries) :
             /\ (prog = "convert" /\ ~IsMp4(VideoOf(input, entries[i]))) =>
                   NodeAt(output, entries[i]) = NodeAt(input, entries[i])
             /\ (prog = "upload" /\ (Trim(VideoOf(input, entries[i])) = <<>>
                                      \/ Failed(i))) =>
                   NodeAt(output, entries[i]) = NodeAt(input, entries[i])

\* An upload run that wrote its output after skipping a blank entry, failing
\* on a second and rewriting a third.
C12_Witness ==
    /\ prog = "upload"
    /\ pc = "done"
    /\ Len(entries) = 3
    /\ \E i, j, k \in 1..3 :
         /\ VideoOf(input, entries[i]) = <<" ">>
         /\ Failed(j)
         /\ Succeeded(k)
         /\ VideoOf(output, entries[k]) # VideoOf(input, entries[k])

====
